---- MODULE Spec2Model ----
(***************************************************************************)
(* Model of food_tracker.py: one SQLite table `entries` behind a Flask     *)
(* JSON API.  Every route handler is one action; one request is served at  *)
(* a time.  Strings are sequences of one-character strings, JSON values    *)
(* are tagged records, dates are [year, month, day] records.               *)
(***************************************************************************)
EXTENDS Integers, Sequences, FiniteSets, TLC

\* entries, seq: the rows of table entries and its AUTOINCREMENT counter
\* schema: "none" (no table), "old" (no calories column) or "new"
\* today, tz: the server's date and UTC offset
\* inflight: per client, the request being served statement by statement
\* req, resp: the last request completed and its response
VARIABLES entries, seq, schema, today, tz, inflight, req, resp

vars == <<entries, seq, schema, today, tz, inflight, req, resp>>

(* ------------------------------ bounds -------------------------------- *)

\* AUTOINCREMENT ids handed out in one run of the model
MaxId == 2

(* ----------------------------- characters ----------------------------- *)

DigitChars == <<"0", "1", "2", "3", "4", "5", "6", "7", "8", "9">>

IsDigit(c) == \E i \in 1..10 : DigitChars[i] = c

DigitVal(c) == (CHOOSE i \in 1..10 : DigitChars[i] = c) - 1

\* byte values of the characters the model uses (SQLite compares TEXT with
\* the BINARY collation, byte by byte)
Ascii ==
  (" " :> 32) @@ ("+" :> 43) @@ ("-" :> 45) @@ ("." :> 46) @@
  ("0" :> 48) @@ ("1" :> 49) @@ ("2" :> 50) @@ ("3" :> 51) @@ ("4" :> 52) @@
  ("5" :> 53) @@ ("6" :> 54) @@ ("7" :> 55) @@ ("8" :> 56) @@ ("9" :> 57) @@
  ("B" :> 66) @@ ("L" :> 76) @@ ("a" :> 97) @@ ("b" :> 98) @@ ("c" :> 99) @@
  ("n" :> 110) @@ ("x" :> 120)

RECURSIVE StrLess(_, _)
\* a < b for TEXT values: memcmp on the common prefix, then the shorter first
StrLess(a, b) ==
  IF b = <<>> THEN FALSE
  ELSE IF a = <<>> THEN TRUE
  ELSE IF Head(a) = Head(b) THEN StrLess(Tail(a), Tail(b))
  ELSE Ascii[Head(a)] < Ascii[Head(b)]

StrLeq(a, b) == a = b \/ StrLess(a, b)

\* a BETWEEN whose upper bound is exclusive
SqlBetween_Exclusive(x, lo, hi) == StrLeq(lo, x) /\ StrLess(x, hi)

\* SQL: x BETWEEN lo AND hi
SqlBetween(x, lo, hi) == StrLeq(lo, x) /\ StrLeq(x, hi)

RECURSIVE LStrip(_)
LStrip(s) == IF s # <<>> /\ Head(s) = " " THEN LStrip(Tail(s)) ELSE s

RECURSIVE RStrip(_)
RStrip(s) ==
  IF s # <<>> /\ s[Len(s)] = " " THEN RStrip(SubSeq(s, 1, Len(s) - 1)) ELSE s

\* str.strip()
Strip(s) == RStrip(LStrip(s))

RECURSIVE NatToStr(_)
NatToStr(n) ==
  IF n < 10 THEN <<DigitChars[n + 1]>>
  ELSE NatToStr(n \div 10) \o <<DigitChars[(n % 10) + 1]>>

\* str(int)
IntToStr(n) == IF n < 0 THEN <<"-">> \o NatToStr(0 - n) ELSE NatToStr(n)

RECURSIVE DigitsToNat(_)
DigitsToNat(s) ==
  IF s = <<>> THEN 0
  ELSE DigitsToNat(SubSeq(s, 1, Len(s) - 1)) * 10 + DigitVal(s[Len(s)])

AllDigits(s) == s # <<>> /\ \A i \in 1..Len(s) : IsDigit(s[i])

(* ----------------------------- JSON values ---------------------------- *)
\* t: "absent" (key not in the object), "null", "str", "int", "float";
\* a float carries its value in tenths (n = 15 is 1.5)

JAbsent == [t |-> "absent", s |-> <<>>, n |-> 0]
JNull == [t |-> "null", s |-> <<>>, n |-> 0]
JStr(s) == [t |-> "str", s |-> s, n |-> 0]
JInt(n) == [t |-> "int", s |-> <<>>, n |-> n]
JFloat(tenths) == [t |-> "float", s |-> <<>>, n |-> tenths]

\* dict.get(key): None when the key is absent
Get(v) == IF v.t = "absent" THEN JNull ELSE v

\* dict.get(key, 0)
GetOr0(v) == IF v.t = "absent" THEN JInt(0) ELSE v

\* Python truth value
Truthy(v) ==
  CASE v.t = "null" -> FALSE
    [] v.t = "absent" -> FALSE
    [] v.t = "str" -> v.s # <<>>
    [] OTHER -> v.n # 0

\* float -> int truncates toward zero
Trunc10(n) == IF n >= 0 THEN n \div 10 ELSE 0 - ((0 - n) \div 10)

\* str(x)
PyStr(v) ==
  CASE v.t = "str" -> v.s
    [] v.t = "int" -> IntToStr(v.n)
    [] v.t = "float" ->
         (IF v.n < 0 THEN <<"-">> ELSE <<>>)
           \o NatToStr(Trunc10(IF v.n < 0 THEN 0 - v.n ELSE v.n))
           \o <<".">> \o <<DigitChars[((IF v.n < 0 THEN 0 - v.n ELSE v.n) % 10) + 1]>>
    [] OTHER -> <<"N", "o", "n", "e">>

\* the field taken without .strip()
StrField_NoStrip(v) == IF Truthy(Get(v)) THEN PyStr(Get(v)) ELSE <<>>

\* str(x or "").strip()
StrField(v) == Strip(IF Truthy(Get(v)) THEN PyStr(Get(v)) ELSE <<>>)

\* int(str): optional surrounding blanks, optional sign, decimal digits
ParseInt(s) ==
  LET b == Strip(s)
      signed == b # <<>> /\ Head(b) \in {"+", "-"}
      d == IF signed THEN Tail(b) ELSE b
  IN  IF AllDigits(d)
      THEN [ok |-> TRUE,
            val |-> IF signed /\ Head(b) = "-" THEN 0 - DigitsToNat(d)
                    ELSE DigitsToNat(d)]
      ELSE [ok |-> FALSE, val |-> 0]

\* int(x): ok = FALSE stands for TypeError / ValueError
PyInt(v) ==
  CASE v.t = "int" -> [ok |-> TRUE, val |-> v.n]
    [] v.t = "float" -> [ok |-> TRUE, val |-> Trunc10(v.n)]
    [] v.t = "str" -> ParseInt(v.s)
    [] OTHER -> [ok |-> FALSE, val |-> 0]

(* ------------------------------ calendar ------------------------------ *)
\* datetime.date as [year, month, day]; arithmetic goes through the
\* proleptic Gregorian ordinal, as date.toordinal / date.fromordinal do

Date(y, m, d) == [year |-> y, month |-> m, day |-> d]

IsLeap(y) == y % 4 = 0 /\ (y % 100 # 0 \/ y % 400 = 0)

DaysInMonth(y, m) ==
  IF m = 2 THEN (IF IsLeap(y) THEN 29 ELSE 28)
  ELSE IF m \in {4, 6, 9, 11} THEN 30 ELSE 31

DaysBeforeYear(y) ==
  (y - 1) * 365 + (y - 1) \div 4 - (y - 1) \div 100 + (y - 1) \div 400

RECURSIVE DaysBeforeMonth(_, _)
DaysBeforeMonth(y, m) ==
  IF m = 1 THEN 0 ELSE DaysBeforeMonth(y, m - 1) + DaysInMonth(y, m - 1)

\* date.toordinal()
ToOrdinal(d) == DaysBeforeYear(d.year) + DaysBeforeMonth(d.year, d.month) + d.day

\* date.fromordinal(n)
FromOrdinal(n) ==
  LET n0 == n - 1
      n400 == n0 \div 146097
      r400 == n0 % 146097
      n100 == r400 \div 36524
      r100 == r400 % 36524
      n4 == r100 \div 1461
      r4 == r100 % 1461
      n1 == r4 \div 365
      r1 == r4 % 365
      y == n400 * 400 + 1 + n100 * 100 + n4 * 4 + n1
  IN  IF n1 = 4 \/ n100 = 4 THEN Date(y - 1, 12, 31)
      ELSE LET m == CHOOSE k \in 1..12 :
                      /\ DaysBeforeMonth(y, k) <= r1
                      /\ r1 < DaysBeforeMonth(y, k) + DaysInMonth(y, k)
           IN  Date(y, m, r1 - DaysBeforeMonth(y, m) + 1)

\* a weekday that counts from Sunday
Weekday_FromSunday(d) == ToOrdinal(d) % 7

\* date.weekday(): Monday is 0
Weekday(d) == (ToOrdinal(d) + 6) % 7

\* d + timedelta(days = k)
AddDays(d, k) == FromOrdinal(ToOrdinal(d) + k)

Pad(s, width) == IF Len(s) < width THEN [i \in 1..(width - Len(s)) |-> "0"] \o s ELSE s

\* date.isoformat(): YYYY-MM-DD
IsoFormat(d) ==
  Pad(NatToStr(d.year), 4) \o <<"-">> \o Pad(NatToStr(d.month), 2)
    \o <<"-">> \o Pad(NatToStr(d.day), 2)

\* strptime directive %m: 1[0-2] | 0[1-9] | [1-9]
MatchMonth(s) ==
  \/ Len(s) = 1 /\ IsDigit(s[1]) /\ s[1] # "0"
  \/ Len(s) = 2 /\ s[1] = "1" /\ s[2] \in {"0", "1", "2"}
  \/ Len(s) = 2 /\ s[1] = "0" /\ IsDigit(s[2]) /\ s[2] # "0"

\* strptime directive %d: 3[0-1] | [1-2]\d | 0[1-9] | [1-9] | " "[1-9]
MatchDay(s) ==
  \/ Len(s) = 1 /\ IsDigit(s[1]) /\ s[1] # "0"
  \/ Len(s) = 2 /\ s[1] = "3" /\ s[2] \in {"0", "1"}
  \/ Len(s) = 2 /\ s[1] \in {"1", "2"} /\ IsDigit(s[2])
  \/ Len(s) = 2 /\ s[1] \in {"0", " "} /\ IsDigit(s[2]) /\ s[2] # "0"

\* parse_iso_day: datetime.strptime(day, "%Y-%m-%d").date();
\* ok = FALSE stands for the ValueError of a string that does not match or
\* names no calendar day
parse_iso_day(s) ==
  LET bad == [ok |-> FALSE, date |-> Date(1, 1, 1)]
      cuts == {p \in {7, 8} : p < Len(s) /\ s[p] = "-"}
  IN  IF Len(s) < 8 \/ ~AllDigits(SubSeq(s, 1, 4)) \/ s[5] # "-" \/ cuts = {}
      THEN bad
      ELSE LET p == CHOOSE q \in cuts : \A r \in cuts : q <= r
               ms == SubSeq(s, 6, p - 1)
               ds == SubSeq(s, p + 1, Len(s))
           IN  IF ~MatchMonth(ms) \/ ~MatchDay(ds) THEN bad
               ELSE LET y == DigitsToNat(SubSeq(s, 1, 4))
                        m == DigitsToNat(ms)
                        d == DigitsToNat(LStrip(ds))
                    IN  IF y < 1 \/ d > DaysInMonth(y, m) THEN bad
                        ELSE [ok |-> TRUE, date |-> Date(y, m, d)]

\* the seven days that end the day before d
week_bounds_Previous(d) ==
  LET start == AddDays(d, 0 - 7)
  IN  <<start, AddDays(start, 6)>>

\* a week counted with isoweekday (Monday is 1) in place of weekday
week_bounds_IsoWeekday(d) ==
  LET start == AddDays(d, 0 - (Weekday(d) + 1))
  IN  <<start, AddDays(start, 6)>>

\* week_bounds: Monday of d's week and the Sunday after it
week_bounds(d) ==
  LET start == AddDays(d, 0 - Weekday(d))
  IN  <<start, AddDays(start, 6)>>

\* month_bounds whose next month stays in the same year
month_bounds_SameYear(d) ==
  LET start == Date(d.year, d.month, 1)
      next_month == Date(start.year, (start.month % 12) + 1, 1)
  IN  <<start, AddDays(next_month, 0 - 1)>>

\* month_bounds: first day of d's month and the day before the next month
month_bounds(d) ==
  LET start == Date(d.year, d.month, 1)
      next_month == IF start.month = 12 THEN Date(start.year + 1, 1, 1)
                    ELSE Date(start.year, start.month + 1, 1)
  IN  <<start, AddDays(next_month, 0 - 1)>>

(* ------------------------------ requests ------------------------------ *)

D0310 == <<"2", "0", "2", "4", "-", "0", "3", "-", "1", "0">>
D0311 == <<"2", "0", "2", "4", "-", "0", "3", "-", "1", "1">>
D031 == <<"2", "0", "2", "4", "-", "0", "3", "-", "1">>

\* 07:00:00 and 13:00:00 UTC on 1970-01-01, in milliseconds
Ts07 == 7 * 3600 * 1000
Ts13 == 13 * 3600 * 1000

Payload(day, meal, ts, note, calories) ==
  [day |-> day, meal |-> meal, ts |-> ts, note |-> note, calories |-> calories]

\* JSON objects that pass validation
ValidPayloads ==
  { Payload(JStr(<<" ">> \o D0310 \o <<" ">>), JStr(<<"L", " ">>), JInt(Ts07),
            JStr(<<" ", "n">>), JInt(300)),
    Payload(JStr(D0311), JStr(<<"B">>), JStr(IntToStr(Ts13)), JAbsent, JInt(120)),
    Payload(JStr(D0311), JStr(<<"B">>), JFloat(15), JStr(<<"x">>), JFloat(2507)),
    Payload(JStr(D031), JStr(<<"L">>), JInt(Ts13), JNull, JStr(<<" ", "1", "2", "0">>)),
    Payload(JStr(D0310), JStr(<<"B">>), JInt(Ts07), JAbsent, JInt(0 - 5)),
    Payload(JStr(D0310), JStr(<<"B">>), JInt(Ts07), JAbsent, JAbsent),
    Payload(JStr(D0310), JStr(<<"B">>), JInt(Ts07), JAbsent, JStr(<<"a", "b", "c">>)) }

\* JSON objects that fail validation
InvalidPayloads ==
  { Payload(JAbsent, JStr(<<"B">>), JInt(Ts07), JAbsent, JInt(300)),
    Payload(JStr(D0310), JAbsent, JInt(Ts07), JAbsent, JInt(300)),
    Payload(JStr(D0310), JStr(<<"B">>), JAbsent, JAbsent, JInt(300)),
    Payload(JStr(D0310), JStr(<<"B">>), JNull, JStr(<<"x">>), JInt(300)),
    Payload(JStr(<<" ", " ">>), JStr(<<"B">>), JInt(Ts07), JAbsent, JInt(300)),
    Payload(JStr(D0310), JStr(<<" ">>), JInt(Ts07), JAbsent, JInt(300)),
    Payload(JInt(0), JStr(<<"B">>), JInt(Ts07), JAbsent, JInt(300)),
    Payload(JStr(D0310), JStr(<<"B">>), JStr(<<"a", "b", "c">>), JAbsent, JInt(300)),
    Payload(JStr(D0311), JStr(<<"L">>), JStr(<<"1", ".", "5">>), JAbsent, JInt(300)) }

Payloads == ValidPayloads \cup InvalidPayloads

NoPayload == Payload(JAbsent, JAbsent, JAbsent, JAbsent, JAbsent)

\* ids a client puts in the path of PUT and DELETE
Ids == 1..MaxId

\* values of the ?day= query parameter of the entries routes; <<>> is a
\* missing or empty parameter
DayParams == {<<>>, D0310, D0311, D031}

\* values of the ?day= query parameter of /api/summary
SummaryParams ==
  {<<>>, D0310, D0311,
   <<"2", "0", "2", "4", "-", "3", "-", "1", "1">>,
   <<"2", "0", "2", "4", "-", "0", "2", "-", "3", "0">>,
   <<"a", "b", "c">>}

\* the server's date and the UTC offset (seconds) of its time zone
Servers ==
  { [today |-> Date(2024, 3, 10), tz |-> 0 - 18000],
    [today |-> Date(2024, 3, 11), tz |-> 3600] }

\* clients with a request under way, and the request slot of an idle client
Clients == {"a", "b"}
Idle == [op |-> "idle"]

Request(op, id, data, day) == [op |-> op, id |-> id, data |-> data, day |-> day]

Response(op, status) ==
  [op |-> op, status |-> status, error |-> "", id |-> 0, day |-> <<>>,
   entries |-> <<>>, counts |-> <<>>, total_entries |-> 0, sums |-> <<>>,
   week_start |-> <<>>, week_end |-> <<>>, month_start |-> <<>>, month_end |-> <<>>]

(* ------------------------------ handlers ------------------------------ *)

\* iso_today
iso_today == IsoFormat(today)

\* the day parameter with no default
DayArg_NoDefault(param) == param

\* request.args.get("day") or iso_today()
DayArg(param) == IF param # <<>> THEN param ELSE iso_today

\* calories coerced without the clamp at 0
ClampCalories_NoClamp(v) ==
  LET c == PyInt(v) IN IF c.ok THEN c.val ELSE 0

\* cal_int of add_entry / update_entry
ClampCalories(v) ==
  LET c == PyInt(v) IN IF c.ok /\ c.val >= 0 THEN c.val ELSE 0

\* the validation and coercion block shared by add_entry and update_entry:
\* status 200 with the five column values, or 400 with the error message
Coerce(data) ==
  LET day == StrField(data.day)
      meal == StrField(data.meal)
      ts == Get(data.ts)
      note == StrField(data.note)
      calories == GetOr0(data.calories)
      none == [status |-> 400, error |-> "", day |-> <<>>, meal |-> <<>>, ts |-> 0,
               note |-> <<>>, calories |-> 0]
  IN  IF day = <<>> \/ meal = <<>> \/ ts.t = "null"
      THEN [none EXCEPT !.error = "Missing day/meal/ts"]
      ELSE IF ~PyInt(ts).ok
      THEN [none EXCEPT !.error = "ts must be an integer (unix ms)"]
      ELSE [status |-> 200, error |-> "", day |-> day, meal |-> meal,
            ts |-> PyInt(ts).val, note |-> note, calories |-> ClampCalories(calories)]

\* Coerce of every request body of the model, computed once
Coerced == [data \in Payloads |-> Coerce(data)]

Row(id, c) ==
  [id |-> id, day |-> c.day, meal |-> c.meal, ts |-> c.ts, note |-> c.note,
   calories |-> c.calories]

\* an INSERT that skips a row whose five values are already stored
Insert_IgnoreDuplicate(rows, id, c) ==
  IF \E r \in rows : r = Row(r.id, c) THEN rows ELSE rows \cup {Row(id, c)}

\* INSERT INTO entries(day, meal, ts, note, calories) VALUES(?,?,?,?,?)
Insert(rows, id, c) == rows \cup {Row(id, c)}

\* an UPDATE that keeps the old note when the new one is empty
Update_KeepNote(rows, id, c) ==
  {IF r.id = id
   THEN Row(id, [c EXCEPT !.note = IF c.note = <<>> THEN r.note ELSE c.note])
   ELSE r : r \in rows}

\* an UPDATE that inserts the row when no row has the id
Update_Upsert(rows, id, c) ==
  {r \in rows : r.id # id} \cup {Row(id, c)}

\* UPDATE entries SET day=?, meal=?, ts=?, note=?, calories=? WHERE id=?
Update(rows, id, c) == {IF r.id = id THEN Row(id, c) ELSE r : r \in rows}

\* cursor.rowcount of the UPDATE
RowCount(rows, id) == Cardinality({r \in rows : r.id = id})

\* a DELETE ... WHERE id<=?
DeleteId_UpTo(rows, id) == {r \in rows : r.id > id}

\* DELETE FROM entries WHERE id=?
DeleteId(rows, id) == {r \in rows : r.id # id}

\* a DELETE ... WHERE day LIKE ? || '%'
DeleteDay_Prefix(rows, day) ==
  {r \in rows : ~(Len(day) <= Len(r.day) /\ SubSeq(r.day, 1, Len(day)) = day)}

\* DELETE FROM entries WHERE day=?
DeleteDay(rows, day) == {r \in rows : r.day # day}

\* a rowid that ignores the AUTOINCREMENT counter: one more than the largest
\* rowid stored
NewId_MaxRowid(rows, last) ==
  IF rows = {} THEN 1
  ELSE (CHOOSE i \in {r.id : r \in rows} : \A r \in rows : r.id <= i) + 1

\* id INTEGER PRIMARY KEY AUTOINCREMENT: one more than the largest rowid the
\* table ever held (cur.lastrowid of the INSERT)
NewId(rows, last) == last + 1

\* CREATE TABLE IF NOT EXISTS entries (id, day, meal, ts, note): a missing
\* table is created without the calories column, an existing one is kept
CreateTable(sch) == IF sch = "none" THEN "old" ELSE sch

\* _column_exists(conn, "entries", "calories")
_column_exists(sch) == sch = "new"

\* a migration that creates the table anew
AddColumn_Recreate(rows) == {}

\* ALTER TABLE entries ADD COLUMN calories INTEGER NOT NULL DEFAULT 0
AddColumn(rows) ==
  {[id |-> r.id, day |-> r.day, meal |-> r.meal, ts |-> r.ts, note |-> r.note,
    calories |-> 0] : r \in rows}

\* init_db, run at every process start
init_db ==
  LET created == CreateTable(schema) IN
  /\ req' = Request("init_db", 0, NoPayload, <<>>)
  /\ resp' = Response("init_db", 0)
  /\ IF ~_column_exists(created)
     THEN /\ entries' = AddColumn(entries)
          /\ schema' = "new"
     ELSE /\ entries' = entries
          /\ schema' = created
  /\ UNCHANGED <<seq, today, tz, inflight>>

\* POST /api/entries
add_entry(data) ==
  LET c == Coerced[data] IN
  /\ req' = Request("add", 0, data, <<>>)
  /\ IF c.status # 200
     THEN /\ resp' = [Response("add", c.status) EXCEPT !.error = c.error]
          /\ UNCHANGED <<entries, seq>>
     ELSE /\ seq < MaxId
          /\ entries' = Insert(entries, NewId(entries, seq), c)
          /\ seq' = NewId(entries, seq)
          /\ resp' = [Response("add", 200) EXCEPT !.id = NewId(entries, seq)]
  /\ UNCHANGED <<today, tz, schema, inflight>>

\* PUT /api/entries/<entry_id>
update_entry(entry_id, data) ==
  LET c == Coerced[data] IN
  /\ req' = Request("update", entry_id, data, <<>>)
  /\ IF c.status # 200
     THEN /\ resp' = [Response("update", c.status) EXCEPT !.error = c.error]
          /\ UNCHANGED entries
     ELSE /\ entries' = Update(entries, entry_id, c)
          /\ resp' = IF RowCount(entries, entry_id) = 0
                     THEN [Response("update", 404) EXCEPT !.error = "Entry not found"]
                     ELSE Response("update", 200)
  /\ UNCHANGED <<seq, today, tz, schema, inflight>>

\* DELETE /api/entries/<entry_id>
delete_entry(entry_id) ==
  /\ req' = Request("delete", entry_id, NoPayload, <<>>)
  /\ entries' = DeleteId(entries, entry_id)
  /\ resp' = Response("delete", 200)
  /\ UNCHANGED <<seq, today, tz, schema, inflight>>

\* POST /api/entries/clear
clear_day(param) ==
  LET day == DayArg(param) IN
  /\ req' = Request("clear", 0, NoPayload, param)
  /\ entries' = DeleteDay(entries, day)
  /\ resp' = [Response("clear", 200) EXCEPT !.day = day]
  /\ UNCHANGED <<seq, today, tz, schema, inflight>>

\* SELECT ... FROM entries WHERE day=?
SelectDay(rows, day) == {r \in rows : r.day = day}

\* the rows in ORDER BY id ASC
OrderByTs_ById(rows) ==
  LET n == Cardinality(rows) IN
  {s \in [1..n -> rows] : \A i, j \in 1..n : i < j => s[i].id < s[j].id}

\* the orders ORDER BY ts ASC may return rows in: every arrangement of the
\* rows with ts non-decreasing (SQL leaves the order of equal keys open)
OrderByTs(rows) ==
  LET n == Cardinality(rows) IN
  {s \in [1..n -> rows] :
     /\ \A i, j \in 1..n : i # j => s[i] # s[j]
     /\ \A i, j \in 1..n : i < j => s[i].ts <= s[j].ts}

RECURSIVE SumCalories(_)
\* COALESCE(SUM(calories), 0) over a set of rows
SumCalories(rows) ==
  IF rows = {} THEN 0
  ELSE LET r == CHOOSE x \in rows : TRUE
       IN  r.calories + SumCalories(rows \ {r})

\* sum_calories_between: ... WHERE day BETWEEN ? AND ?
sum_calories_between(rows, start_day, end_day) ==
  SumCalories({r \in rows : SqlBetween(r.day, IsoFormat(start_day), IsoFormat(end_day))})

\* the hour of datetime.utcfromtimestamp
LocalHour_Utc(ts) == ((ts \div 1000) \div 3600) % 24

\* datetime.fromtimestamp(ts / 1000.0).hour in the server's time zone
LocalHour(ts) == (((ts \div 1000) + tz) \div 3600) % 24

RECURSIVE CountHours(_, _)
\* the loop of histogram_all: counts[hour] += 1 for every row
CountHours(rows, counts) ==
  IF rows = {} THEN counts
  ELSE LET r == CHOOSE x \in rows : TRUE
           hour == LocalHour(r.ts)
       IN  CountHours(rows \ {r}, [counts EXCEPT ![hour + 1] = @ + 1])

RECURSIVE SumSeq(_)
SumSeq(s) == IF s = <<>> THEN 0 ELSE Head(s) + SumSeq(Tail(s))

\* GET /api/entries
get_entries(param) ==
  LET day == DayArg(param) IN
  /\ req' = Request("list", 0, NoPayload, param)
  /\ \E rows \in OrderByTs(SelectDay(entries, day)) :
       resp' = [Response("list", 200) EXCEPT !.day = day, !.entries = rows]
  /\ UNCHANGED <<entries, seq, today, tz, schema, inflight>>

\* GET /api/histogram/all
histogram_all ==
  LET counts == CountHours(entries, [h \in 1..24 |-> 0]) IN
  /\ req' = Request("histogram", 0, NoPayload, <<>>)
  /\ resp' = [Response("histogram", 200) EXCEPT
                !.counts = counts, !.total_entries = SumSeq(counts)]
  /\ UNCHANGED <<entries, seq, today, tz, schema, inflight>>

\* GET /api/summary
summary(param) ==
  LET day_str == DayArg(param)
      p == parse_iso_day(day_str)
      d == p.date
      w == week_bounds(d)
      m == month_bounds(d)
  IN
  /\ req' = Request("summary", 0, NoPayload, param)
  /\ resp' = IF ~p.ok
             THEN [Response("summary", 400) EXCEPT
                     !.error = "Invalid day. Use YYYY-MM-DD"]
             ELSE [Response("summary", 200) EXCEPT
                     !.day = day_str,
                     !.week_start = IsoFormat(w[1]), !.week_end = IsoFormat(w[2]),
                     !.month_start = IsoFormat(m[1]), !.month_end = IsoFormat(m[2]),
                     !.sums = << sum_calories_between(entries, d, d),
                                 sum_calories_between(entries, w[1], w[2]),
                                 sum_calories_between(entries, m[1], m[2]),
                                 SumCalories(entries) >>]
  /\ UNCHANGED <<entries, seq, today, tz, schema, inflight>>

(* ---------------------------- specification --------------------------- *)

Init ==
  /\ entries = {}
  /\ seq = 0
  /\ schema = "new"
  /\ inflight = [cl \in Clients |-> Idle]
  /\ \E server \in Servers : today = server.today /\ tz = server.tz
  /\ req = Request("none", 0, NoPayload, <<>>)
  /\ resp = Response("none", 0)

Next ==
  \/ \E data \in Payloads : add_entry(data)
  \/ \E id \in Ids, data \in Payloads : update_entry(id, data)
  \/ \E id \in Ids : delete_entry(id)
  \/ \E param \in DayParams : clear_day(param)
  \/ \E param \in DayParams : get_entries(param)
  \/ histogram_all
  \/ \E param \in SummaryParams : summary(param)

Spec == Init /\ [][Next]_vars

(* ------------------- summaries over the calendar -------------------- *)

\* server dates: every day of a common year, two leap years and a century
\* year that is not a leap year
CalYears == {1900, 2000, 2023, 2024}

CalDates ==
  {d \in {Date(y, m, k) : y \in CalYears, m \in 1..12, k \in 1..31} :
     d.day <= DaysInMonth(d.year, d.month)}

\* a server started on any of these dates, with an empty table
CalInit ==
  /\ entries = {}
  /\ seq = 0
  /\ schema = "new"
  /\ today \in CalDates
  /\ tz \in {server.tz : server \in Servers}
  /\ inflight = [cl \in Clients |-> Idle]
  /\ req = Request("none", 0, NoPayload, <<>>)
  /\ resp = Response("none", 0)

\* GET /api/summary without ?day=: week_bounds and month_bounds of today
CalNext == summary(<<>>)

CalSpec == CalInit /\ [][CalNext]_vars

(* ------------------------- process start ---------------------------- *)

\* the rows the handlers can have written
StoredRows == {Coerced[data] : data \in ValidPayloads}

\* the tables of the current schema: rows with distinct ids
NewStores ==
  {{Row(id, f[id]) : id \in S} : S \in SUBSET Ids, f \in [Ids -> StoredRows]}

\* a row of the table created before the calories column existed
OldRow(r) == [id |-> r.id, day |-> r.day, meal |-> r.meal, ts |-> r.ts, note |-> r.note]

OldStores == {{OldRow(r) : r \in st} : st \in NewStores}

\* the database file found at process start: none, one with the old table,
\* or one with the current table
MigInit ==
  /\ \/ schema = "none" /\ entries = {} /\ seq = 0
     \/ schema = "old" /\ entries \in OldStores /\ seq = MaxId
     \/ schema = "new" /\ entries \in NewStores /\ seq = MaxId
  /\ \E server \in Servers : today = server.today /\ tz = server.tz
  /\ inflight = [cl \in Clients |-> Idle]
  /\ req = Request("none", 0, NoPayload, <<>>)
  /\ resp = Response("none", 0)

MigNext == init_db

MigSpec == MigInit /\ [][MigNext]_vars

(* ------------------------ concurrent requests ------------------------ *)

\* the two request bodies of the concurrent clients
Lunch ==
  Payload(JStr(<<" ">> \o D0310 \o <<" ">>), JStr(<<"L", " ">>), JInt(Ts07),
          JStr(<<" ", "n">>), JInt(300))
Breakfast ==
  Payload(JStr(D0311), JStr(<<"B">>), JStr(IntToStr(Ts13)), JAbsent, JInt(120))

ConcPayloads == {Lunch, Breakfast}

\* a request a thread of the server is working on: pc counts the SQL
\* statements it has executed, sums holds the totals read so far, and
\* overlapped records that the table changed after the request read from it
Call(op, id, data, day) ==
  [op |-> op, id |-> id, data |-> data, day |-> day, pc |-> 1, sums |-> <<>>,
   overlapped |-> FALSE]

\* valid requests; the updates and the delete address the same id
ConcRequests ==
  {Call("add", 0, data, <<>>) : data \in ConcPayloads}
    \cup {Call("update", 1, data, <<>>) : data \in ConcPayloads}
    \cup {Call("delete", 1, NoPayload, <<>>)}
    \cup {Call("clear", 0, NoPayload, D0310)}
    \cup {Call("list", 0, NoPayload, day) : day \in {D0310, D0311}}
    \cup {Call("summary", 0, NoPayload, D0310)}

\* app.run dispatches a request to a thread
Receive(cl, call) ==
  /\ inflight[cl].op = "idle"
  /\ inflight' = [inflight EXCEPT ![cl] = call]
  /\ UNCHANGED <<entries, seq, schema, today, tz, req, resp>>

\* the requests in flight after cl's statement left the table as rows and
\* cl answered: a summary that has read a total sees the change
AfterStatement(cl, rows) ==
  [c \in Clients |->
     IF c = cl THEN Idle
     ELSE IF inflight[c].op = "summary" /\ inflight[c].pc > 1 /\ rows # entries
          THEN [inflight[c] EXCEPT !.overlapped = TRUE]
          ELSE inflight[c]]

\* add_entry of a thread: the INSERT and the response
ExecAdd(cl) ==
  LET call == inflight[cl]
      c == Coerced[call.data]
      rows == Insert(entries, NewId(entries, seq), c)
  IN
  /\ call.op = "add"
  /\ seq < MaxId
  /\ entries' = rows
  /\ seq' = NewId(entries, seq)
  /\ req' = Request("add", 0, call.data, <<>>)
  /\ resp' = [Response("add", 200) EXCEPT !.id = NewId(entries, seq)]
  /\ inflight' = AfterStatement(cl, rows)
  /\ UNCHANGED <<schema, today, tz>>

\* update_entry of a thread: the UPDATE and the response
ExecUpdate(cl) ==
  LET call == inflight[cl]
      c == Coerced[call.data]
      rows == Update(entries, call.id, c)
  IN
  /\ call.op = "update"
  /\ entries' = rows
  /\ req' = Request("update", call.id, call.data, <<>>)
  /\ resp' = IF RowCount(entries, call.id) = 0
             THEN [Response("update", 404) EXCEPT !.error = "Entry not found"]
             ELSE Response("update", 200)
  /\ inflight' = AfterStatement(cl, rows)
  /\ UNCHANGED <<seq, schema, today, tz>>

\* delete_entry of a thread
ExecDelete(cl) ==
  LET call == inflight[cl]
      rows == DeleteId(entries, call.id)
  IN
  /\ call.op = "delete"
  /\ entries' = rows
  /\ req' = Request("delete", call.id, NoPayload, <<>>)
  /\ resp' = Response("delete", 200)
  /\ inflight' = AfterStatement(cl, rows)
  /\ UNCHANGED <<seq, schema, today, tz>>

\* clear_day of a thread
ExecClear(cl) ==
  LET call == inflight[cl]
      day == DayArg(call.day)
      rows == DeleteDay(entries, day)
  IN
  /\ call.op = "clear"
  /\ entries' = rows
  /\ req' = Request("clear", 0, NoPayload, call.day)
  /\ resp' = [Response("clear", 200) EXCEPT !.day = day]
  /\ inflight' = AfterStatement(cl, rows)
  /\ UNCHANGED <<seq, schema, today, tz>>

\* get_entries of a thread: the SELECT and the response
ExecList(cl) ==
  LET call == inflight[cl]
      day == DayArg(call.day)
  IN
  /\ call.op = "list"
  /\ req' = Request("list", 0, NoPayload, call.day)
  /\ \E rows \in OrderByTs(SelectDay(entries, day)) :
       resp' = [Response("list", 200) EXCEPT !.day = day, !.entries = rows]
  /\ inflight' = AfterStatement(cl, entries)
  /\ UNCHANGED <<entries, seq, schema, today, tz>>

\* parse_iso_day, week_bounds and month_bounds of the days the concurrent
\* summaries ask for, computed once
Parsed ==
  [day_str \in {call.day : call \in {c \in ConcRequests : c.op = "summary"}} |->
     LET p == parse_iso_day(day_str) IN
     [ok |-> p.ok, d |-> p.date, w |-> week_bounds(p.date), m |-> month_bounds(p.date)]]

\* summary of a thread: one of its four SELECTs, each reading the table as
\* it is then (sqlite3 opens no transaction for a SELECT); the fourth is
\* followed by the response
ExecSum(cl) ==
  LET call == inflight[cl]
      day_str == DayArg(call.day)
      d == Parsed[day_str].d
      w == Parsed[day_str].w
      m == Parsed[day_str].m
      total == CASE call.pc = 1 -> sum_calories_between(entries, d, d)
                 [] call.pc = 2 -> sum_calories_between(entries, w[1], w[2])
                 [] call.pc = 3 -> sum_calories_between(entries, m[1], m[2])
                 [] OTHER -> SumCalories(entries)
  IN
  /\ call.op = "summary"
  /\ Parsed[day_str].ok
  /\ IF call.pc < 4
     THEN /\ inflight' = [inflight EXCEPT ![cl] =
                            [call EXCEPT !.pc = @ + 1, !.sums = Append(@, total)]]
          /\ UNCHANGED <<req, resp>>
     ELSE /\ inflight' = AfterStatement(cl, entries)
          /\ req' = Request("summary", 0, NoPayload, call.day)
          /\ resp' = [Response("summary", 200) EXCEPT
                        !.day = day_str,
                        !.week_start = IsoFormat(w[1]), !.week_end = IsoFormat(w[2]),
                        !.month_start = IsoFormat(m[1]), !.month_end = IsoFormat(m[2]),
                        !.sums = Append(call.sums, total)]
  /\ UNCHANGED <<entries, seq, schema, today, tz>>

ConcNext ==
  \/ \E cl \in Clients, call \in ConcRequests : Receive(cl, call)
  \/ \E cl \in Clients : ExecAdd(cl)
  \/ \E cl \in Clients : ExecUpdate(cl)
  \/ \E cl \in Clients : ExecDelete(cl)
  \/ \E cl \in Clients : ExecClear(cl)
  \/ \E cl \in Clients : ExecList(cl)
  \/ \E cl \in Clients : ExecSum(cl)

\* a server on 2024-03-10 with an empty table and no request in flight
ConcInit ==
  /\ entries = {}
  /\ seq = 0
  /\ schema = "new"
  /\ inflight = [cl \in Clients |-> Idle]
  /\ today = Date(2024, 3, 10)
  /\ tz = 0
  /\ req = Request("none", 0, NoPayload, <<>>)
  /\ resp = Response("none", 0)

ConcSpec == ConcInit /\ [][ConcNext]_vars

(* ------------------------------- claims ------------------------------- *)

\* the stored rows with a given id
RowsWithId(rows, id) == {r \in rows : r.id = id}

\* the elements of a sequence
Range(s) == {s[i] : i \in 1..Len(s)}

\* C1: the response of GET /api/entries?day=D holds exactly the stored
\* entries whose day equals D (today's date when D is missing), each once,
\* in non-decreasing order of ts.
C1_ListForDay ==
  resp.op = "list" =>
    /\ resp.status = 200
    /\ resp.day = (IF req.day # <<>> THEN req.day ELSE IsoFormat(today))
    /\ Range(resp.entries) = {e \in entries : e.day = resp.day}
    /\ Len(resp.entries) = Cardinality(Range(resp.entries))
    /\ \A i \in 1..Len(resp.entries) : \A j \in 1..Len(resp.entries) :
         i < j => resp.entries[i].ts <= resp.entries[j].ts

\* a day was listed whose two entries come back in the reverse of their
\* insertion order, because the later entry has the smaller ts
C1_Witness ==
  /\ resp.op = "list"
  /\ req.day = D0311
  /\ Len(resp.entries) = 2
  /\ resp.entries[1].id > resp.entries[2].id
  /\ resp.entries[1].ts < resp.entries[2].ts

\* the calories of the stored rows whose day lies in [lo, hi], summed id by
\* id
RECURSIVE CaloriesUpTo(_, _, _)
CaloriesUpTo(id, lo, hi) ==
  IF id = 0 THEN 0
  ELSE CaloriesUpTo(id - 1, lo, hi)
       + (IF \E r \in entries : r.id = id /\ ~StrLess(r.day, lo) /\ ~StrLess(hi, r.day)
          THEN (CHOOSE r \in entries : r.id = id).calories
          ELSE 0)

\* C2: in a summary for date d, each range total is the sum of calories of
\* exactly the stored entries with start <= day <= end, both bounds included
\* (0 when none matches), and day_total is the sum of calories of the entries
\* whose day equals d.
C2_SumCaloriesBetween ==
  (resp.op = "summary" /\ resp.status = 200) =>
    LET d == parse_iso_day(resp.day).date
        iso == IsoFormat(d)
        w == week_bounds(d)
        m == month_bounds(d)
        one == [id \in 1..seq |-> {r \in entries : r.id = id /\ r.day = iso}]
    IN  /\ resp.sums[1] = CaloriesUpTo(seq, iso, iso)
        /\ resp.sums[1] =
             SumSeq([id \in 1..seq |->
                       IF one[id] = {} THEN 0 ELSE (CHOOSE r \in one[id] : TRUE).calories])
        /\ resp.sums[2] = CaloriesUpTo(seq, IsoFormat(w[1]), IsoFormat(w[2]))
        /\ resp.sums[3] = CaloriesUpTo(seq, IsoFormat(m[1]), IsoFormat(m[2]))

\* a summary for Monday 2024-03-11 whose week total counts an entry dated on
\* the week's first day and leaves out an entry of the Sunday before
C2_Witness ==
  /\ resp.op = "summary"
  /\ resp.status = 200
  /\ resp.day = D0311
  /\ \E a \in entries, b \in entries :
       /\ a.day = D0311 /\ a.calories = 120
       /\ b.day = D0310 /\ b.calories = 300
  /\ resp.sums = <<120, 120, 420, 420>>

\* C3: an update that succeeds leaves exactly one entry with the id, holding
\* the request's day, meal, ts, note and calories (as coerced) and nothing of
\* the old row; it is the entry of that id in its new day's list; no entry
\* is added or removed and every other entry is unchanged.
C3_UpdateOverwrites ==
  [][(req'.op = "update" /\ resp'.status = 200) =>
       LET c == Coerced[req'.data]
           new == [id |-> req'.id, day |-> c.day, meal |-> c.meal, ts |-> c.ts,
                   note |-> c.note, calories |-> c.calories]
       IN  /\ RowsWithId(entries, req'.id) # {}
           /\ RowsWithId(entries', req'.id) = {new}
           /\ new \in SelectDay(entries', c.day)
           /\ \A old \in RowsWithId(entries, req'.id) :
                old.day # c.day => \A r \in SelectDay(entries', old.day) : r.id # req'.id
           /\ Cardinality(entries') = Cardinality(entries)
           /\ \A r \in entries : r.id # req'.id => r \in entries'
           /\ \A r \in entries' : r.id # req'.id => r \in entries]_vars

\* an update with no note and no calories succeeded on an entry of a day
\* other than the one it now has, next to an entry that was left alone
C3_Witness ==
  /\ req.op = "update"
  /\ resp.status = 200
  /\ req.data.note = JAbsent
  /\ req.data.calories = JAbsent
  /\ \E r \in entries : r.id = req.id /\ r.note = <<>> /\ r.calories = 0
  /\ \E r \in entries : r.id # req.id /\ r.note # <<>>

\* a JSON value that is no value at all
Missing(v) == v.t \in {"absent", "null"}

\* a JSON string that is empty after trimming
Blank(v) == v.t = "str" /\ \A i \in 1..Len(v.s) : v.s[i] = " "

\* C4: a POST or PUT whose day, meal or ts is missing, or whose day or meal
\* is empty after trimming, is answered 400 and changes nothing in the store.
C4_MissingFieldRejected ==
  [][(/\ req'.op \in {"add", "update"}
      /\ \/ Missing(req'.data.day) \/ Missing(req'.data.meal) \/ Missing(req'.data.ts)
         \/ Blank(req'.data.day) \/ Blank(req'.data.meal))
       => (resp'.status = 400 /\ entries' = entries /\ seq' = seq)]_vars

\* a PUT without meal for an id that is stored was answered 400
C4_Witness ==
  /\ req.op = "update"
  /\ req.data.meal = JAbsent
  /\ resp.status = 400
  /\ resp.error = "Missing day/meal/ts"
  /\ RowsWithId(entries, req.id) # {}

\* C5: a PUT with valid input for an id no stored entry has is answered 404
\* and changes nothing in the store.
C5_UpdateUnknownId ==
  [][(/\ req'.op = "update"
      /\ req'.data \in ValidPayloads
      /\ RowsWithId(entries, req'.id) = {})
       => (resp'.status = 404 /\ entries' = entries /\ seq' = seq)]_vars

\* a valid PUT for an id that was deleted got 404 while another entry is
\* stored
C5_Witness ==
  /\ req.op = "update"
  /\ resp.status = 404
  /\ req.data \in ValidPayloads
  /\ req.id <= seq
  /\ entries # {}

\* a JSON value that is neither an integer nor the decimal text of one
NotAnInteger(v) ==
  \/ v.t = "float" /\ v.n % 10 # 0
  \/ v.t = "str" /\ ~ParseInt(v.s).ok

\* C6: POST /api/entries answers 400 and creates no row whenever the
\* supplied ts is not an integer, such as the fractional number 1.5 or a
\* non-numeric string.
C6_NonIntegerTsRejected ==
  [][(req'.op = "add" /\ NotAnInteger(req'.data.ts))
       => (resp'.status = 400 /\ entries' = entries /\ seq' = seq)]_vars

\* C7: DELETE /api/entries/<id> always answers 200; afterwards no entry has
\* the id, every other entry is stored unchanged, nothing is added, and when
\* no entry had the id the store is unchanged.
C7_DeleteIdempotent ==
  [][req'.op = "delete" =>
       /\ resp'.status = 200
       /\ \A r \in entries' : r.id # req'.id /\ r \in entries
       /\ \A r \in entries : r.id # req'.id => r \in entries'
       /\ (\A r \in entries : r.id # req'.id) => entries' = entries
       /\ seq' = seq]_vars

\* a delete of an id that was handed out and is no longer stored was
\* answered 200 while another entry is stored
C7_Witness ==
  /\ req.op = "delete"
  /\ resp.status = 200
  /\ req.id <= seq
  /\ RowsWithId(entries, req.id) = {}
  /\ entries # {}

\* C8: clear_day(D) answers 200; afterwards no entry has day D, every entry
\* of another day is stored unchanged, nothing is added, and when no entry
\* had day D the store is unchanged.
C8_ClearDay ==
  [][req'.op = "clear" =>
       LET D == IF req'.day # <<>> THEN req'.day ELSE IsoFormat(today) IN
       /\ resp'.status = 200
       /\ resp'.day = D
       /\ \A r \in entries' : r.day # D /\ r \in entries
       /\ \A r \in entries : r.day # D => r \in entries'
       /\ (\A r \in entries : r.day # D) => entries' = entries
       /\ seq' = seq]_vars

\* day 2024-03-1 was cleared and an entry of 2024-03-10, the only one left of
\* two, is still stored
C8_Witness ==
  /\ req.op = "clear"
  /\ req.day = D031
  /\ resp.status = 200
  /\ seq = 2
  /\ Cardinality(entries) = 1
  /\ \E r \in entries : r.day = D0310

\* a string that is not empty and has no blank at either end
Trimmed(s) == s # <<>> /\ s[1] # " " /\ s[Len(s)] # " "

\* a calories value that is negative, not numeric, or not there
BadCalories(v) ==
  \/ Missing(v)
  \/ v.t \in {"int", "float"} /\ v.n < 0
  \/ v.t = "str" /\ (~ParseInt(v.s).ok \/ ParseInt(v.s).val < 0)

\* C9: every stored entry has a day and a meal that are non-empty after
\* trimming, an integer ts and calories >= 0; an accepted add or update whose
\* calories are negative, non-numeric or missing stores calories 0.
C9_WellFormed ==
  /\ \A e \in entries :
       /\ Trimmed(e.day)
       /\ Trimmed(e.meal)
       /\ e.ts \in Int
       /\ e.calories \in Nat
  /\ (req.op \in {"add", "update"} /\ resp.status = 200 /\ BadCalories(req.data.calories))
       => \E e \in entries :
            /\ e.id = (IF req.op = "add" THEN resp.id ELSE req.id)
            /\ e.calories = 0

\* an add with calories -5 was accepted and its entry stores calories 0
C9_Witness ==
  /\ req.op = "add"
  /\ resp.status = 200
  /\ req.data.calories = JInt(0 - 5)
  /\ \E e \in entries : e.id = resp.id /\ e.calories = 0 /\ e.note = <<>>

\* ts (milliseconds since the epoch) lies in hour h of some local day
InLocalHour(ts, h) ==
  \E k \in (0 - 2)..2 :
    LET local == ts + tz * 1000
        start == (24 * k + h) * 3600 * 1000
    IN  start <= local /\ local < start + 3600 * 1000

\* C10: the histogram has 24 counts, counts[h] is the number of stored
\* entries whose ts falls in local hour h, and total_entries, their sum, is
\* the number of stored entries.
C10_Histogram ==
  resp.op = "histogram" =>
    /\ resp.status = 200
    /\ Len(resp.counts) = 24
    /\ \A h \in 0..23 :
         resp.counts[h + 1] = Cardinality({e \in entries : InLocalHour(e.ts, h)})
    /\ resp.total_entries = SumSeq(resp.counts)
    /\ resp.total_entries = Cardinality(entries)

\* west of Greenwich an entry of 1970-01-01 00:00:00.001 UTC is counted in
\* hour 19 of the day before, next to an entry of 13:00 UTC in hour 8
C10_Witness ==
  /\ resp.op = "histogram"
  /\ tz < 0
  /\ resp.counts[20] = 1
  /\ resp.counts[9] = 1
  /\ resp.total_entries = 2

\* C11: no two stored entries share an id; an update changes no id; the id
\* an add returns is larger than the counter, which bounds every id handed
\* out before and never decreases, so it differs from every earlier id, also
\* from ids whose entries were removed since.
C11_IdsUniqueImmutable ==
  [][/\ \A a \in entries' : \A b \in entries' : a.id = b.id => a = b
     /\ \A e \in entries' : e.id \in 1..seq'
     /\ seq' >= seq
     /\ req'.op = "update" => {e.id : e \in entries'} = {e.id : e \in entries}
     /\ (req'.op = "add" /\ resp'.status = 200) =>
          /\ resp'.id > seq
          /\ resp'.id = seq'
          /\ \A e \in entries : e.id # resp'.id
          /\ \E e \in entries' : e.id = resp'.id]_vars

\* an add returned id 2 although the entry of id 1 is gone and the table was
\* empty
C11_Witness ==
  /\ req.op = "add"
  /\ resp.status = 200
  /\ resp.id = 2
  /\ {e.id : e \in entries} = {2}

\* the five column values of a row
Fields(r) == <<r.day, r.meal, r.ts, r.note, r.calories>>

\* C12: every accepted add stores one more entry, carrying the request's
\* coerced values under an id no stored entry has, and keeps every stored
\* entry, also when an entry with the same values is already stored.
C12_AddNotIdempotent ==
  [][(req'.op = "add" /\ resp'.status = 200) =>
       LET c == Coerced[req'.data] IN
       /\ Cardinality(entries') = Cardinality(entries) + 1
       /\ entries \subseteq entries'
       /\ \E new \in entries' \ entries :
            /\ new.id = resp'.id
            /\ Fields(new) = <<c.day, c.meal, c.ts, c.note, c.calories>>]_vars

\* the same payload was accepted twice and is stored twice under two ids
C12_Witness ==
  /\ req.op = "add"
  /\ resp.status = 200
  /\ \E a \in entries : \E b \in entries :
       /\ a.id # b.id
       /\ Fields(a) = Fields(b)
       /\ b.id = resp.id
       /\ b.note = <<"n">>

\* days from 0000-03-01 to a date, counted with years that start in March
DayNumber(d) ==
  LET y == IF d.month <= 2 THEN d.year - 1 ELSE d.year
      m == (d.month + 9) % 12
  IN  365 * y + y \div 4 - y \div 100 + y \div 400 + (153 * m + 2) \div 5 + d.day - 1

\* 2024-03-11 was a Monday
IsMonday(d) == (DayNumber(d) - DayNumber(Date(2024, 3, 11))) % 7 = 0

\* C13: for the date d of a summary, week_bounds(d), reported as week_start
\* and week_end, is a Monday and the Sunday six days after it, and
\* start <= d <= end.
C13_WeekBounds ==
  resp.op = "summary" =>
    LET d == today
        w == week_bounds(d)
    IN  /\ resp.status = 200
        /\ resp.week_start = IsoFormat(w[1])
        /\ resp.week_end = IsoFormat(w[2])
        /\ IsMonday(w[1])
        /\ DayNumber(w[2]) = DayNumber(w[1]) + 6
        /\ w[1].day \in 1..31 /\ w[1].month \in 1..12
        /\ w[2].day \in 1..31 /\ w[2].month \in 1..12
        /\ DayNumber(w[1]) <= DayNumber(d)
        /\ DayNumber(d) <= DayNumber(w[2])

\* the week of Saturday 2000-01-01 starts in the year before
C13_Witness ==
  /\ resp.op = "summary"
  /\ today = Date(2000, 1, 1)
  /\ resp.week_start = <<"1", "9", "9", "9", "-", "1", "2", "-", "2", "7">>
  /\ resp.week_end = <<"2", "0", "0", "0", "-", "0", "1", "-", "0", "2">>

\* the length of a month by the Gregorian rule
CalendarMonthLength(y, m) ==
  CASE m \in {1, 3, 5, 7, 8, 10, 12} -> 31
    [] m \in {4, 6, 9, 11} -> 30
    [] OTHER -> IF y % 400 = 0 \/ (y % 4 = 0 /\ y % 100 # 0) THEN 29 ELSE 28

\* C14: for the date d of a summary, month_bounds(d), reported as
\* month_start and month_end, is the first day of d's month and its last
\* calendar day: same year and month as d, day 28, 29, 30 or 31 as the
\* calendar requires, and the day after it is the first of the next month
\* (January of the next year after December).
C14_MonthBounds ==
  resp.op = "summary" =>
    LET d == today
        m == month_bounds(d)
        next == IF d.month = 12 THEN Date(d.year + 1, 1, 1)
                ELSE Date(d.year, d.month + 1, 1)
    IN  /\ resp.status = 200
        /\ resp.month_start = IsoFormat(m[1])
        /\ resp.month_end = IsoFormat(m[2])
        /\ m[1] = Date(d.year, d.month, 1)
        /\ m[2] = Date(d.year, d.month, CalendarMonthLength(d.year, d.month))
        /\ DayNumber(next) = DayNumber(m[2]) + 1

\* a summary asked in December 2023 reports 2023-12-31 as the month's end
C14_Witness ==
  /\ resp.op = "summary"
  /\ today.year = 2023
  /\ today.month = 12
  /\ resp.month_start = <<"2", "0", "2", "3", "-", "1", "2", "-", "0", "1">>
  /\ resp.month_end = <<"2", "0", "2", "3", "-", "1", "2", "-", "3", "1">>

C18_TotalsOrdered ==
  (resp.op = "summary" /\ resp.status = 200) =>
    LET day_total == resp.sums[1]
        week_total == resp.sums[2]
        month_total == resp.sums[3]
        all_total == resp.sums[4]
    IN  /\ 0 <= day_total
        /\ day_total <= week_total
        /\ week_total <= all_total
        /\ day_total <= month_total
        /\ month_total <= all_total

\* a summary whose day has calories and whose month has more
C18_Witness ==
  /\ resp.op = "summary"
  /\ resp.status = 200
  /\ 0 < resp.sums[1]
  /\ resp.sums[1] < resp.sums[3]
  /\ resp.sums[2] <= resp.sums[4]

\* C20: POST /api/entries/clear with a missing or empty day parameter
\* answers with the server's current date and deletes exactly the entries
\* of that date, so a store holding such entries does not stay unchanged.
C20_ClearDefaultsToToday ==
  [][(req'.op = "clear" /\ req'.day = <<>>) =>
       /\ resp'.status = 200
       /\ resp'.day = IsoFormat(today)
       /\ entries' = {e \in entries : e.day # IsoFormat(today)}
       /\ (\E e \in entries : e.day = IsoFormat(today)) => entries' # entries]_vars

\* a clear without day on 2024-03-11 left only an entry of 2024-03-10 of the
\* two that were added
C20_Witness ==
  /\ req.op = "clear"
  /\ req.day = <<>>
  /\ resp.day = D0311
  /\ today = Date(2024, 3, 11)
  /\ seq = 2
  /\ Cardinality(entries) = 1
  /\ \A e \in entries : e.day = D0310

\* the columns of a row that exist in both schemas
Kept(e) == <<e.id, e.day, e.meal, e.ts, e.note>>

\* C15: init_db, run on no table, on a table without the calories column or
\* on an up-to-date table, ends with a table that has the calories column,
\* keeps every row with its id, day, meal, ts and note, gives the rows of a
\* table without the column calories 0, and changes nothing when the column
\* is already there (so a second run changes nothing).
C15_InitDbIdempotent ==
  [][req'.op = "init_db" =>
       /\ schema' = "new"
       /\ \A e \in entries' : "calories" \in DOMAIN e
       /\ {Kept(e) : e \in entries'} = {Kept(e) : e \in entries}
       /\ Cardinality(entries') = Cardinality(entries)
       /\ schema # "new" => \A e \in entries' : e.calories = 0
       /\ schema = "new" => entries' = entries
       /\ seq' = seq]_vars

\* the entry with meal L, which the handlers store with 300 calories, came
\* from a table without the column and has calories 0, next to a second row
C15_Witness ==
  /\ req.op = "init_db"
  /\ schema = "new"
  /\ Cardinality(entries) = 2
  /\ \E e \in entries : e.day = D0310 /\ e.meal = <<"L">> /\ e.calories = 0

\* the five values a request body asks to store
Complete(data) ==
  IF data = Lunch THEN <<D0310, <<"L">>, Ts07, <<"n">>, 300>>
  ELSE <<D0311, <<"B">>, Ts13, <<>>, 120>>

\* C16: with update and delete requests for the same id in flight at once,
\* every write is one atomic step: every stored entry carries the complete
\* payload of one write (never fields of two), the entry an update has just
\* written equals that update's payload, a deleted entry is absent, and no
\* list response shows an entry with fields of two writes.
C16_LastWriteWins ==
  /\ \A e \in entries : \E data \in ConcPayloads : Fields(e) = Complete(data)
  /\ (req.op = "update" /\ resp.status = 200) =>
       \A e \in entries : e.id = req.id => Fields(e) = Complete(req.data)
  /\ (req.op = "update" /\ resp.status = 200) => \E e \in entries : e.id = req.id
  /\ req.op = "delete" => \A e \in entries : e.id # req.id
  /\ resp.op = "list" =>
       \A i \in 1..Len(resp.entries) :
         \E data \in ConcPayloads : Fields(resp.entries[i]) = Complete(data)

\* two updates of entry 1 are in flight at once: Breakfast has executed and
\* entry 1 holds exactly its payload, Lunch has not executed yet
C16_Witness ==
  /\ \E cl \in Clients :
       /\ inflight[cl].op = "update"
       /\ inflight[cl].id = 1
       /\ inflight[cl].data = Lunch
  /\ req.op = "update"
  /\ req.id = 1
  /\ req.data = Breakfast
  /\ resp.status = 200
  /\ \E e \in entries : e.id = 1 /\ Fields(e) = Complete(Breakfast)

\* C19 as stated: the totals of every summary response, also of one that
\* writes of other clients interleaved with, satisfy
\* day_total <= week_total <= all_total and day_total <= month_total <= all_total.
C19_SnapshotUnderInterleaving ==
  resp.op = "summary" =>
    /\ resp.sums[1] <= resp.sums[2]
    /\ resp.sums[2] <= resp.sums[4]
    /\ resp.sums[1] <= resp.sums[3]
    /\ resp.sums[3] <= resp.sums[4]

\* C19 amended: a summary answered while other requests are in flight
\* reports four totals that are each >= 0, and they satisfy
\* day_total <= week_total <= all_total and day_total <= month_total <= all_total
\* whenever no write changed the table between the request's first and last
\* SELECT.
C19_OrderedWhenUnchanged ==
  [][\A cl \in Clients :
       (inflight[cl].op = "summary" /\ inflight[cl].pc = 4 /\ inflight'[cl].op = "idle") =>
         /\ resp'.op = "summary"
         /\ resp'.status = 200
         /\ Len(resp'.sums) = 4
         /\ \A k \in 1..4 : resp'.sums[k] >= 0
         /\ ~inflight[cl].overlapped =>
              /\ resp'.sums[1] <= resp'.sums[2] /\ resp'.sums[2] <= resp'.sums[4]
              /\ resp'.sums[1] <= resp'.sums[3] /\ resp'.sums[3] <= resp'.sums[4]]_vars

\* a summary was answered with 300 for the day and 420 for the month while a
\* delete of entry 1 was in flight and had not executed
C19_Witness ==
  /\ resp.op = "summary"
  /\ resp.sums = <<300, 300, 420, 420>>
  /\ \E cl \in Clients : inflight[cl].op = "delete"
  /\ Cardinality(entries) = 2

====
